---- MODULE Spec2Model ----
(***************************************************************************)
(* TimeCrisisCharts: the aspect detector of astro_engine.py and the        *)
(* timeline aspect-event pipeline of timeline_grid_widget.py.              *)
(*                                                                         *)
(* Longitudes and orbs are whole degrees.  An instant is a whole number of *)
(* ticks, TicksPerDay ticks to the calendar day.  A Python dict is a       *)
(* sequence of items in insertion order.  An aspect name, the f-string     *)
(* "p1 kind p2", is the tuple of its three space-separated words.          *)
(***************************************************************************)
EXTENDS Integers, Sequences, FiniteSets, TLC

VARIABLES
    eph,                    \* the ephemeris: body -> motion (external collaborator)
    start_date,             \* TimelineGridWidget.start_date
    months_to_display,      \* TimelineGridWidget.months_to_display
    birth_date,             \* TimelineGridWidget.birth_date
    natal_planets,          \* TimelineGridWidget.natal_planets
    timeline_aspects_cache, \* TimelineGridWidget.timeline_aspects_cache
    aspect_events,          \* TimelineGridWidget.aspect_events
    natal_houses,           \* TimelineGridWidget.natal_houses
    raw_events,             \* raw_events of the last _process_aspect_events run
    days_visited,           \* current_date of each iteration of the last sweep
    call                    \* the last call of a pure engine function

vars == <<eph, start_date, months_to_display, birth_date, natal_planets, natal_houses,
          timeline_aspects_cache, aspect_events, raw_events, days_visited, call>>

widget_vars == <<eph, start_date, months_to_display, birth_date, natal_planets,
                 natal_houses, timeline_aspects_cache, aspect_events, raw_events, days_visited>>

-----------------------------------------------------------------------------
(* Bounds of the model *)

TicksPerDay == 2
MaxMonths == 1
MaxOrb == 16

(* Program constants *)

FullCircle == 360
HalfCircle == 180
DaysPerMonth == 30
PadDays == 2
ProgressionOrb == 1
TransitOrb == 2
None == -1

-----------------------------------------------------------------------------
(* astro_engine.py *)

PLANETS == <<"Sun", "Moon", "Mercury", "Venus", "Mars",
             "Jupiter", "Saturn", "Uranus", "Neptune", "Pluto">>

\* The code points of the body names: Python compares strings by them.
NameChars ==
    [n \in {PLANETS[i] : i \in 1..Len(PLANETS)} |->
        CASE n = "Sun"     -> <<83, 117, 110>>
          [] n = "Moon"    -> <<77, 111, 111, 110>>
          [] n = "Mercury" -> <<77, 101, 114, 99, 117, 114, 121>>
          [] n = "Venus"   -> <<86, 101, 110, 117, 115>>
          [] n = "Mars"    -> <<77, 97, 114, 115>>
          [] n = "Jupiter" -> <<74, 117, 112, 105, 116, 101, 114>>
          [] n = "Saturn"  -> <<83, 97, 116, 117, 114, 110>>
          [] n = "Uranus"  -> <<85, 114, 97, 110, 117, 115>>
          [] n = "Neptune" -> <<78, 101, 112, 116, 117, 110, 101>>
          [] n = "Pluto"   -> <<80, 108, 117, 116, 111>>]

RECURSIVE SeqLess(_, _)
SeqLess(a, b) ==
    IF b = <<>> THEN FALSE
    ELSE IF a = <<>> THEN TRUE
    ELSE IF a[1] # b[1] THEN a[1] < b[1]
    ELSE SeqLess(Tail(a), Tail(b))

StrLessEq(a, b) == a = b \/ SeqLess(NameChars[a], NameChars[b])

\* sorted([p1_name, p2_name])
unsorted_pair(p1_name, p2_name) == <<p1_name, p2_name>>
sorted_pair(p1_name, p2_name) ==
    IF StrLessEq(p1_name, p2_name) THEN <<p1_name, p2_name>>
    ELSE <<p2_name, p1_name>>

Abs(x) == IF x < 0 THEN -x ELSE x

\* A list and a dict as stored values: every item is computed once, when the
\* list or dict is built.
list(s) == SubSeq(s, 1, Len(s))
dict(f) == f @@ <<>>

aspect_definitions_seven ==
    << [kind |-> "Conjunction", angle |-> 0],
       [kind |-> "Opposition",  angle |-> 180],
       [kind |-> "Trine",       angle |-> 120],
       [kind |-> "Square",      angle |-> 90],
       [kind |-> "Sextile",     angle |-> 60],
       [kind |-> "Semi-Sextile", angle |-> 30],
       [kind |-> "Inconjunct",  angle |-> 150] >>
aspect_definitions ==
    << [kind |-> "Conjunction", angle |-> 0],
       [kind |-> "Opposition",  angle |-> 180],
       [kind |-> "Trine",       angle |-> 120],
       [kind |-> "Square",      angle |-> 90],
       [kind |-> "Sextile",     angle |-> 60] >>

\* angle = abs(p1_pos - p2_pos); if angle > 180: angle = 360 - angle
separation_nowrap(p1_pos, p2_pos) == Abs(p1_pos - p2_pos)
separation(p1_pos, p2_pos) ==
    LET angle == Abs(p1_pos - p2_pos)
    IN  IF angle > HalfCircle THEN FullCircle - angle ELSE angle

\* f"{p1} {aspect} {p2}"
aspect_name(p1, kind, p2) == <<p1, kind, p2>>

\* The items (aspect, angle) of aspect_definitions that an angle is within
\* orb of, in the order of the dict: the inner loop over the definitions
\* (the scan left at the first match)
matching_definitions_first(angle, orb) ==
    LET hits == SelectSeq(aspect_definitions, LAMBDA d : Abs(angle - d.angle) <= orb)
    IN  IF hits = <<>> THEN <<>> ELSE <<hits[1]>>
matching_definitions(angle, orb) ==
    SelectSeq(aspect_definitions, LAMBDA d : Abs(angle - d.angle) <= orb)

\* The aspects appended for one pair of bodies; n1, n2 are stored as p1, p2
pair_aspects(n1, n2, p1_pos, p2_pos, orb) ==
    LET angle == separation(p1_pos, p2_pos)
        hits == matching_definitions(angle, orb)
    IN  [k \in 1..Len(hits) |->
            [p1 |-> n1, aspect |-> hits[k].kind, p2 |-> n2,
             name |-> aspect_name(n1, hits[k].kind, n2),
             orb |-> Abs(angle - hits[k].angle)]]

\* aspects_found after the loops: the lists appended pair by pair, in order
RECURSIVE concat(_, _)
concat(parts, k) ==
    IF k > Len(parts) THEN <<>> ELSE parts[k] \o concat(parts, k + 1)

\* The pairs (i, j) the two nested loops of calculate_aspects visit, in order
pairs_of_one(n) ==
    SelectSeq([s \in 1..(n * n) |-> [i |-> ((s - 1) \div n) + 1, j |-> ((s - 1) % n) + 1]],
              LAMBDA s : s.j > s.i)

\* The pairs (i, j) the two nested loops of find_cross_aspects visit, in order
pairs_of_two(n1, n2) ==
    list([s \in 1..(n1 * n2) |-> [i |-> ((s - 1) \div n2) + 1, j |-> ((s - 1) % n2) + 1]])

calculate_aspects(planets, orb) ==
    LET pairs == pairs_of_one(Len(planets))
        found == list([k \in 1..Len(pairs) |->
                    LET p1_name == planets[pairs[k].i].name
                        p2_name == planets[pairs[k].j].name
                        sorted_planets == sorted_pair(p1_name, p2_name)
                    IN  pair_aspects(sorted_planets[1], sorted_planets[2],
                                     planets[pairs[k].i].pos[1],
                                     planets[pairs[k].j].pos[1], orb)])
    IN  concat(SelectSeq(found, LAMBDA part : part # <<>>), 1)

find_cross_aspects_sorted(planets1, planets2, orb) ==
    LET pairs == pairs_of_two(Len(planets1), Len(planets2))
        found == list([k \in 1..Len(pairs) |->
                    LET sp == sorted_pair(planets1[pairs[k].i].name,
                                          planets2[pairs[k].j].name)
                    IN  pair_aspects(sp[1], sp[2],
                                     planets1[pairs[k].i].pos[1],
                                     planets2[pairs[k].j].pos[1], orb)])
    IN  concat(SelectSeq(found, LAMBDA part : part # <<>>), 1)
find_cross_aspects(planets1, planets2, orb) ==
    LET pairs == pairs_of_two(Len(planets1), Len(planets2))
        found == list([k \in 1..Len(pairs) |->
                    pair_aspects(planets1[pairs[k].i].name, planets2[pairs[k].j].name,
                                 planets1[pairs[k].i].pos[1],
                                 planets2[pairs[k].j].pos[1], orb)])
    IN  concat(SelectSeq(found, LAMBDA part : part # <<>>), 1)

-----------------------------------------------------------------------------
(* The ephemeris (swisseph).  A body's motion is [base, step, turn]: it     *)
(* starts at base and moves step degrees a tick; with turn > 0 it turns     *)
(* round every turn ticks (a station), so it passes the same longitude      *)
(* again and again; with turn = 0 it runs on.                               *)

PlanetSet == {PLANETS[i] : i \in 1..Len(PLANETS)}

wave(t, turn) ==
    IF turn = 0 THEN t
    ELSE LET p == t % (2 * turn) IN IF p <= turn THEN p ELSE 2 * turn - p

\* get_planet_position(calculation_date, planet_id) -> (longitude, speed)
get_planet_position(calculation_date, planet) ==
    LET m == eph[planet]
        rising == m.turn = 0 \/ (calculation_date % (2 * m.turn)) < m.turn
    IN  << (m.base + m.step * wave(calculation_date, m.turn)) % FullCircle,
           IF rising THEN m.step * TicksPerDay ELSE -(m.step * TicksPerDay) >>

\* {name: get_planet_position(date, pid) for name, pid in PLANETS.items()}
calculate_transits(calculation_date) ==
    list([i \in 1..Len(PLANETS) |->
        [name |-> PLANETS[i], pos |-> get_planet_position(calculation_date, PLANETS[i])]])

\* datetime.date() / strftime('%Y-%m-%d'): the calendar day of an instant
date_of(t) == t \div TicksPerDay

\* t + timedelta(days = n)
plus_days(t, n) == t + n * TicksPerDay

\* the offset taken from the start of the view the widget shows, once it shows one
progressions_from_view(birth, target_date) ==
    LET days_offset == IF start_date = None THEN date_of(target_date) - date_of(birth)
                       ELSE date_of(start_date) - date_of(birth)
    IN  calculate_transits(plus_days(birth, days_offset))
progressions_by_elapsed_time(birth, target_date) ==
    LET progression_date == birth + (target_date - birth)
    IN  calculate_transits(progression_date)
calculate_secondary_progressions(birth, target_date) ==
    LET days_offset == date_of(target_date) - date_of(birth)
        progression_date == plus_days(birth, days_offset)
    IN  calculate_transits(progression_date)

\* calculate_natal_chart(birth_date, ...)[0]
calculate_natal_chart(birth) == calculate_transits(birth)

\* planets[name] of a dict
dict_get(planets, n) ==
    LET k == CHOOSE k \in 1..Len(planets) : planets[k].name = n IN planets[k].pos

-----------------------------------------------------------------------------
(* timeline_grid_widget.py *)

MajorTransitNames == <<"Jupiter", "Saturn", "Uranus", "Neptune", "Pluto">>

Tiers == <<"lunar_prog", "other_prog", "transits">>

\* current_date of iteration i of "for i in range(num_days + 2)", i = 0 ..
loop_dates_padded(start, num_days) ==
    list([k \in 1..(num_days + PadDays + 1) |-> plus_days(start, k - 2)])
loop_dates(start, num_days) ==
    list([k \in 1..(num_days + PadDays) |-> plus_days(start, k - 2)])

\* [a for a in prog_aspects if a['p1'] == 'Moon' and a['p2'] != 'Moon']
lunar_filter(prog_aspects) ==
    SelectSeq(prog_aspects, LAMBDA a : a.p1 = "Moon" /\ a.p2 # "Moon")

\* [a for a in prog_aspects if 'Moon' not in (a['p1'], a['p2'])]
other_filter(prog_aspects) ==
    SelectSeq(prog_aspects, LAMBDA a : a.p1 # "Moon" /\ a.p2 # "Moon")

\* The body of the loop of _calculate_daily_aspects: the cache entry of a day.
\* (every transiting body against the natal chart)
daily_entry_all_bodies(birth, natal, current_date) ==
    LET transit_planets == calculate_transits(current_date)
        progressed_planets == calculate_secondary_progressions(birth, current_date)
        prog_aspects == calculate_aspects(progressed_planets, ProgressionOrb)
        transit_aspects == find_cross_aspects(transit_planets, natal, TransitOrb)
    IN  [lunar_prog |-> lunar_filter(prog_aspects),
         other_prog |-> other_filter(prog_aspects),
         transits |-> transit_aspects,
         transit_pos |-> transit_planets,
         progressed_pos |-> progressed_planets]
daily_entry(birth, natal, current_date) ==
    LET transit_planets == calculate_transits(current_date)
        progressed_planets == calculate_secondary_progressions(birth, current_date)
        prog_aspects == calculate_aspects(progressed_planets, ProgressionOrb)
        major_transits ==
            list([k \in 1..Len(MajorTransitNames) |->
                [name |-> MajorTransitNames[k],
                 pos |-> dict_get(transit_planets, MajorTransitNames[k])]])
        transit_aspects == find_cross_aspects(major_transits, natal, TransitOrb)
    IN  [lunar_prog |-> lunar_filter(prog_aspects),
         other_prog |-> other_filter(prog_aspects),
         transits |-> transit_aspects,
         transit_pos |-> transit_planets,
         progressed_pos |-> progressed_planets]

\* _calculate_daily_aspects past its guard: the fresh cache, filled day by
\* day; a later day of the same date key would replace an earlier one
calculate_daily_aspects(birth, natal, start, months) ==
    LET dates == loop_dates(start, months * DaysPerMonth)
    IN  dict([key \in {date_of(dates[k]) : k \in 1..Len(dates)} |->
            LET last == CHOOSE k \in 1..Len(dates) :
                            /\ date_of(dates[k]) = key
                            /\ \A j \in (k + 1)..Len(dates) : date_of(dates[j]) # key
            IN  daily_entry(birth, natal, dates[last])])

-----------------------------------------------------------------------------
(* _process_aspect_events *)

\* {a['name']: a for a in day_data.get(tier, [])}: a later item of the same
\* name replaces an earlier one
todays_by_name(aspects) ==
    dict([n \in {aspects[k].name : k \in 1..Len(aspects)} |->
        LET last == CHOOSE k \in 1..Len(aspects) :
                        /\ aspects[k].name = n
                        /\ \A j \in (k + 1)..Len(aspects) : aspects[j].name # n
        IN  aspects[last]])

\* min(readings, key = lambda x: x[1]): the first reading of the least orb
min_reading(readings) ==
    LET k == CHOOSE k \in 1..Len(readings) :
                /\ \A j \in 1..Len(readings) : readings[k][2] <= readings[j][2]
                /\ \A j \in 1..(k - 1) : readings[j][2] > readings[k][2]
    IN  readings[k]

\* Iterating a Python set: the order is unspecified; rev picks one of two.
RECURSIVE set_to_seq(_)
set_to_seq(S) ==
    IF S = {} THEN <<>>
    ELSE LET x == CHOOSE x \in S : TRUE IN <<x>> \o set_to_seq(S \ {x})

reverse(s) == [k \in 1..Len(s) |-> s[Len(s) + 1 - k]]

iterate_set(S, rev) == IF rev THEN reverse(set_to_seq(S)) ELSE set_to_seq(S)

\* the reading appended for an aspect present today
\* (dated for the day after)
reading_of_next_day(tier, day_data, data, current_date) ==
    IF tier = "transits"
    THEN <<plus_days(current_date, 1), data.orb, dict_get(day_data.transit_pos, data.p1)[1]>>
    ELSE <<plus_days(current_date, 1), data.orb>>
reading_of(tier, day_data, data, current_date) ==
    IF tier = "transits"
    THEN <<current_date, data.orb, dict_get(day_data.transit_pos, data.p1)[1]>>
    ELSE <<current_date, data.orb>>

\* final_event of a tracked aspect that is absent on current_date
final_event_prev_day(name, event, tier, current_date) ==
    LET exact_reading == min_reading(event.orb_readings)
        base == [name |-> name, start |-> event.start,
                 end |-> plus_days(current_date, -1),
                 tier |-> tier, exact_date |-> exact_reading[1],
                 orb_readings |-> event.orb_readings,
                 aspect |-> event.data.aspect,
                 p1 |-> event.data.p1, p2 |-> event.data.p2]
    IN  IF tier = "transits" /\ Len(exact_reading) > 2
        THEN base @@ [p1_pos_at_exact_pass |-> exact_reading[3]]
        ELSE base
final_event(name, event, tier, current_date) ==
    LET exact_reading == min_reading(event.orb_readings)
        base == [name |-> name, start |-> event.start, end |-> current_date,
                 tier |-> tier, exact_date |-> exact_reading[1],
                 orb_readings |-> event.orb_readings,
                 aspect |-> event.data.aspect,
                 p1 |-> event.data.p1, p2 |-> event.data.p2]
    IN  IF tier = "transits" /\ Len(exact_reading) > 2
        THEN base @@ [p1_pos_at_exact_pass |-> exact_reading[3]]
        ELSE base

\* Step 1, the loop over the days for one tier: the raw events appended
RECURSIVE sweep_loop(_, _, _, _, _, _, _)
sweep_loop(tier, cache, dates, k, active_aspects, raw, rev) ==
    IF k > Len(dates) THEN raw
    ELSE
      LET current_date == dates[k]
          date_key == date_of(current_date)
          has_day == date_key \in DOMAIN cache
          day_data == cache[date_key]
          todays_aspects == IF has_day THEN todays_by_name(day_data[tier]) ELSE <<>>
          present == DOMAIN todays_aspects
          tracked == dict([n \in DOMAIN active_aspects \cup present |->
                        IF n \in present
                        THEN LET rec == IF n \in DOMAIN active_aspects
                                        THEN active_aspects[n]
                                        ELSE [start |-> current_date,
                                              orb_readings |-> <<>>,
                                              data |-> todays_aspects[n]]
                             IN  [rec EXCEPT !.orb_readings =
                                    Append(@, reading_of(tier, day_data,
                                                         todays_aspects[n], current_date))]
                        ELSE active_aspects[n]])
          ended_names == iterate_set(DOMAIN tracked \ present, rev)
          finished == list([j \in 1..Len(ended_names) |->
                          final_event(ended_names[j], tracked[ended_names[j]],
                                      tier, current_date)])
          kept == dict([n \in present |-> tracked[n]])
      IN  sweep_loop(tier, cache, dates, k + 1, kept, raw \o finished, rev)

\* Step 1 for all tiers
raw_events_of(cache, start, months, rev) ==
    LET dates == loop_dates(start, months * DaysPerMonth)
        tier_events(t) == sweep_loop(Tiers[t], cache, dates, 1, <<>>, <<>>, rev)
    IN  tier_events(1) \o tier_events(2) \o tier_events(3)

Min(a, b) == IF a <= b THEN a ELSE b
Max(a, b) == IF a >= b THEN a ELSE b

\* Step 3: merged_transits, in the order in which the names first occur
RECURSIVE merge_loop_first_dates(_, _, _)
merge_loop_first_dates(transit_events, k, merged) ==
    IF k > Len(transit_events) THEN merged
    ELSE
      LET event == transit_events[k]
          at == {m \in 1..Len(merged) : merged[m].name = event.name}
      IN  IF at = {}
          THEN merge_loop_first_dates(transit_events, k + 1,
                          Append(merged, event @@ [exact_dates |-> <<event.exact_date>>]))
          ELSE LET m == CHOOSE m \in at : TRUE
                   existing == merged[m]
                   updated == [existing EXCEPT
                                 !.start = Min(@, event.start),
                                 !.end = Max(@, event.end),
                                 !.orb_readings = @ \o event.orb_readings]
               IN  merge_loop_first_dates(transit_events, k + 1,
                                          [merged EXCEPT ![m] = updated])
RECURSIVE merge_loop_first_end(_, _, _)
merge_loop_first_end(transit_events, k, merged) ==
    IF k > Len(transit_events) THEN merged
    ELSE
      LET event == transit_events[k]
          at == {m \in 1..Len(merged) : merged[m].name = event.name}
      IN  IF at = {}
          THEN merge_loop_first_end(transit_events, k + 1,
                          Append(merged, event @@ [exact_dates |-> <<event.exact_date>>]))
          ELSE LET m == CHOOSE m \in at : TRUE
                   existing == merged[m]
                   updated == [existing EXCEPT
                                 !.start = Min(@, event.start),
                                 !.exact_dates = Append(@, event.exact_date),
                                 !.orb_readings = @ \o event.orb_readings]
               IN  merge_loop_first_end(transit_events, k + 1,
                                        [merged EXCEPT ![m] = updated])
RECURSIVE merge_loop(_, _, _)
merge_loop(transit_events, k, merged) ==
    IF k > Len(transit_events) THEN merged
    ELSE
      LET event == transit_events[k]
          at == {m \in 1..Len(merged) : merged[m].name = event.name}
      IN  IF at = {}
          THEN merge_loop(transit_events, k + 1,
                          Append(merged, event @@ [exact_dates |-> <<event.exact_date>>]))
          ELSE LET m == CHOOSE m \in at : TRUE
                   existing == merged[m]
                   updated == [existing EXCEPT
                                 !.start = Min(@, event.start),
                                 !.end = Max(@, event.end),
                                 !.exact_dates = Append(@, event.exact_date),
                                 !.orb_readings = @ \o event.orb_readings]
               IN  merge_loop(transit_events, k + 1, [merged EXCEPT ![m] = updated])

\* Step 4: the representative exact date and the sorted exact dates
\* (the last of the readings of the least orb)
finalize_transit_latest(event) ==
    LET readings == event.orb_readings
        k == CHOOSE k \in 1..Len(readings) :
                /\ \A j \in 1..Len(readings) : readings[k][2] <= readings[j][2]
                /\ \A j \in (k + 1)..Len(readings) : readings[j][2] > readings[k][2]
        most_exact_reading == readings[k]
        dated == [event EXCEPT !.exact_date = most_exact_reading[1],
                               !.exact_dates = SortSeq(@, LAMBDA a, b : a < b)]
    IN  IF Len(most_exact_reading) > 2
        THEN [p1_pos_at_exact |-> most_exact_reading[3]] @@ dated
        ELSE dated
finalize_transit(event) ==
    LET most_exact_reading == min_reading(event.orb_readings)
        dated == [event EXCEPT !.exact_date = most_exact_reading[1],
                               !.exact_dates = SortSeq(@, LAMBDA a, b : a < b)]
    IN  IF Len(most_exact_reading) > 2
        THEN [p1_pos_at_exact |-> most_exact_reading[3]] @@ dated
        ELSE dated

\* Steps 2 to 5: prog_events + final_transit_events
merge_all_tiers(raw) ==
    LET merged == merge_loop(raw, 1, <<>>)
        kept == SelectSeq(merged, LAMBDA e : e.orb_readings # <<>>)
    IN  list([k \in 1..Len(kept) |-> finalize_transit(kept[k])])
merge_events(raw) ==
    LET prog_events == SelectSeq(raw, LAMBDA e : e.tier # "transits")
        transit_events == SelectSeq(raw, LAMBDA e : e.tier = "transits")
        merged == merge_loop(transit_events, 1, <<>>)
        kept == SelectSeq(merged, LAMBDA e : e.orb_readings # <<>>)
        final_transit_events == list([k \in 1..Len(kept) |-> finalize_transit(kept[k])])
    IN  prog_events \o final_transit_events

-----------------------------------------------------------------------------
(* The inputs of the model *)

\* Every body stands still, 7 degrees from the next, but Jupiter and the Moon.
still(n) ==
    LET i == CHOOSE i \in 1..Len(PLANETS) : PLANETS[i] = n
    IN  [base |-> 7 * (i - 1) + 3, step |-> 0, turn |-> 0]

JupiterMotions == { [step |-> 1, turn |-> 6], [step |-> 1, turn |-> 0],
                    [step |-> -1, turn |-> 0] }

MoonMotions == { [step |-> -1, turn |-> 7], [step |-> 1, turn |-> 7],
                 [step |-> 1, turn |-> 0] }

ephemeris(mj, mm) ==
    [n \in PlanetSet |->
        IF n = "Jupiter" THEN [still(n) EXCEPT !.step = mj.step, !.turn = mj.turn]
        ELSE IF n = "Moon" THEN [still(n) EXCEPT !.step = mm.step, !.turn = mm.turn]
        ELSE still(n)]

EphSet == {ephemeris(mj, mm) : mj \in JupiterMotions, mm \in MoonMotions}

BirthInstants == {TicksPerDay, TicksPerDay + 1}

StartInstants == {plus_days(0, 3)}

\* swe.houses(...)[0]: twelve cusps, ascending round the circle from the
\* Ascendant, which goes round once a day
houses(t) ==
    LET asc == ((t % TicksPerDay) * FullCircle) \div TicksPerDay
    IN  [i \in 1..12 |-> (asc + 30 * (i - 1)) % FullCircle]

-----------------------------------------------------------------------------
(* The widget's operations *)

Init ==
    /\ eph \in EphSet
    /\ start_date = None
    /\ months_to_display = 0
    /\ birth_date = None
    /\ natal_planets = <<>>
    /\ natal_houses = <<>>
    /\ timeline_aspects_cache = <<>>
    /\ aspect_events = <<>>
    /\ raw_events = <<>>
    /\ days_visited = <<>>
    /\ call = [fn |-> "none"]

\* set_chart_data(birth_date, natal_planets, natal_houses), as main_app calls
\* it with the natal chart of the birth instant
set_chart_data(birth) ==
    /\ birth_date' = birth
    /\ natal_planets' = calculate_natal_chart(birth)
    /\ natal_houses' = houses(birth)
    /\ UNCHANGED <<eph, start_date, months_to_display, timeline_aspects_cache,
                   aspect_events, raw_events, days_visited, call>>

\* set_view(start_date, months): _calculate_and_process_timeline with its
\* guards, _calculate_daily_aspects, _process_aspect_events
\* (the daily cache computed only while it is empty)
set_view_keep_cache(start, months, rev) ==
    /\ start_date' = start
    /\ months_to_display' = months
    /\ IF start = None \/ birth_date = None
       THEN UNCHANGED <<timeline_aspects_cache, aspect_events, raw_events, days_visited>>
       ELSE /\ timeline_aspects_cache' =
                 IF birth_date = None \/ natal_planets = <<>> \/ timeline_aspects_cache # <<>>
                 THEN timeline_aspects_cache
                 ELSE calculate_daily_aspects(birth_date, natal_planets, start, months)
            /\ IF timeline_aspects_cache' = <<>>
               THEN /\ aspect_events' = <<>>
                    /\ raw_events' = <<>>
                    /\ days_visited' = <<>>
               ELSE /\ raw_events' = raw_events_of(timeline_aspects_cache', start, months, rev)
                    /\ aspect_events' = merge_events(raw_events')
                    /\ days_visited' = loop_dates(start, months * DaysPerMonth)
    /\ UNCHANGED <<eph, birth_date, natal_planets, natal_houses, call>>
set_view(start, months, rev) ==
    /\ start_date' = start
    /\ months_to_display' = months
    /\ IF start = None \/ birth_date = None
       THEN UNCHANGED <<timeline_aspects_cache, aspect_events, raw_events, days_visited>>
       ELSE /\ timeline_aspects_cache' =
                 IF birth_date = None \/ natal_planets = <<>>
                 THEN timeline_aspects_cache
                 ELSE calculate_daily_aspects(birth_date, natal_planets, start, months)
            /\ IF timeline_aspects_cache' = <<>>
               THEN /\ aspect_events' = <<>>
                    /\ raw_events' = <<>>
                    /\ days_visited' = <<>>
               ELSE /\ raw_events' = raw_events_of(timeline_aspects_cache', start, months, rev)
                    /\ aspect_events' = merge_events(raw_events')
                    /\ days_visited' = loop_dates(start, months * DaysPerMonth)
    /\ UNCHANGED <<eph, birth_date, natal_planets, natal_houses, call>>

SetChartData == \E birth \in BirthInstants : set_chart_data(birth)

SetView ==
    \E start \in StartInstants, months \in 0..MaxMonths, rev \in BOOLEAN :
        set_view(start, months, rev)

Next == SetChartData \/ SetView

Spec == Init /\ [][Next]_vars

-----------------------------------------------------------------------------
(* The claims about the timeline *)

SweepRan == days_visited # <<>>

NumDaysVisited == Len(days_visited)

\* the aspects of a tier in the snapshot of the k-th day visited
SnapshotOf(tier, k) ==
    LET key == date_of(days_visited[k])
    IN  IF key \in DOMAIN timeline_aspects_cache
        THEN timeline_aspects_cache[key][tier] ELSE <<>>

NamesOf(tier) ==
    UNION { {SnapshotOf(tier, k)[j].name : j \in 1..Len(SnapshotOf(tier, k))} :
            k \in 1..NumDaysVisited }

PresentOn(tier, n, k) ==
    \E j \in 1..Len(SnapshotOf(tier, k)) : SnapshotOf(tier, k)[j].name = n

OrbOn(tier, n, k) ==
    LET snap == SnapshotOf(tier, k)
    IN  snap[CHOOSE j \in 1..Len(snap) : snap[j].name = n].orb

RunStartsAt(tier, n, s) ==
    PresentOn(tier, n, s) /\ (s = 1 \/ ~PresentOn(tier, n, s - 1))

\* the last day of the maximal run that starts on day s
RunEnd(tier, n, s) ==
    CHOOSE e \in s..NumDaysVisited :
        /\ \A k \in s..e : PresentOn(tier, n, k)
        /\ e = NumDaysVisited \/ ~PresentOn(tier, n, e + 1)

RawOf(tier, n) ==
    {j \in 1..Len(raw_events) : raw_events[j].tier = tier /\ raw_events[j].name = n}

\* C1: per tier, every maximal run of days d_s..d_e on which a name is
\* present and which is followed by a day of the sweep on which it is absent
\* yields exactly one raw event: start = d_s, end = the first absent day,
\* exact_date = a day of the run whose orb is the least of the run.
C1_RunYieldsOneEvent ==
    SweepRan =>
      \A t \in 1..Len(Tiers) : \A n \in NamesOf(Tiers[t]) :
        \A s \in 1..NumDaysVisited :
          RunStartsAt(Tiers[t], n, s) =>
            LET e == RunEnd(Tiers[t], n, s)
                ev == {j \in RawOf(Tiers[t], n) :
                          /\ raw_events[j].start <= days_visited[e]
                          /\ raw_events[j].end > days_visited[s]}
            IN  e < NumDaysVisited =>
                  /\ Cardinality(ev) = 1
                  /\ \A j \in ev :
                       /\ raw_events[j].start = days_visited[s]
                       /\ raw_events[j].end = days_visited[e + 1]
                       /\ \E k \in s..e :
                            /\ raw_events[j].exact_date = days_visited[k]
                            /\ \A m \in s..e :
                                 OrbOn(Tiers[t], n, k) <= OrbOn(Tiers[t], n, m)

\* a run of three days or more was closed, most exact after its first day
C1_Witness ==
    /\ SweepRan
    /\ \E j \in 1..Len(raw_events) :
         /\ Len(raw_events[j].orb_readings) >= 3
         /\ raw_events[j].exact_date > raw_events[j].start

TransitNames == {raw_events[j].name : j \in {i \in 1..Len(raw_events) :
                                                raw_events[i].tier = "transits"}}

MergedOf(n) ==
    {j \in 1..Len(aspect_events) :
        aspect_events[j].tier = "transits" /\ aspect_events[j].name = n}

\* C2: k >= 1 raw transit events of one name give exactly one transit event
\* of that name in aspect_events, whose exact_dates has length k.
C2_PassesMergedIntoOne ==
    SweepRan =>
      \A n \in TransitNames :
        /\ Cardinality(MergedOf(n)) = 1
        /\ \A j \in MergedOf(n) :
             Len(aspect_events[j].exact_dates) = Cardinality(RawOf("transits", n))

\* a transit pair with three passes in the window
C2_Witness ==
    /\ SweepRan
    /\ \E n \in TransitNames :
         /\ Cardinality(RawOf("transits", n)) >= 3
         /\ MergedOf(n) # {}

IsSorted(dates) == \A k \in 1..(Len(dates) - 1) : dates[k] <= dates[k + 1]

\* C3: a merged transit event starts at the least start and ends at the
\* greatest end of its passes, its exact_date is the date of a reading of the
\* least orb among all readings of its passes, and exact_dates is ascending.
C3_MergedFields ==
    SweepRan =>
      \A n \in TransitNames : \A j \in MergedOf(n) :
        LET passes == RawOf("transits", n)
            readings == UNION { {raw_events[p].orb_readings[r] :
                                   r \in 1..Len(raw_events[p].orb_readings)} :
                                p \in passes }
        IN  /\ \E p \in passes : aspect_events[j].start = raw_events[p].start
            /\ \A p \in passes : aspect_events[j].start <= raw_events[p].start
            /\ \E p \in passes : aspect_events[j].end = raw_events[p].end
            /\ \A p \in passes : aspect_events[j].end >= raw_events[p].end
            /\ \E r \in readings :
                 /\ r[1] = aspect_events[j].exact_date
                 /\ \A q \in readings : r[2] <= q[2]
            /\ IsSorted(aspect_events[j].exact_dates)

\* a merged transit event of two passes or more, most exact in a later pass
C3_Witness ==
    /\ SweepRan
    /\ \E n \in TransitNames : \E j \in MergedOf(n) :
         /\ Cardinality(RawOf("transits", n)) >= 2
         /\ \E p \in RawOf("transits", n) :
              /\ raw_events[p].start > aspect_events[j].start
              /\ raw_events[p].start <= aspect_events[j].exact_date

IsProgression(e) == e.tier # "transits"

\* C4: the progression events of aspect_events are the raw progression
\* events, each unchanged and on its own, in the same number, also when two
\* of them have the same name.
C4_ProgressionsNeverMerged ==
    SweepRan =>
      SelectSeq(aspect_events, IsProgression) = SelectSeq(raw_events, IsProgression)

\* two raw progression events of the same tier and name, both in aspect_events
C4_Witness ==
    /\ SweepRan
    /\ \E i, j \in 1..Len(raw_events) :
         /\ i < j
         /\ IsProgression(raw_events[i])
         /\ raw_events[i].tier = raw_events[j].tier
         /\ raw_events[i].name = raw_events[j].name
         /\ \E a, b \in 1..Len(aspect_events) :
              a # b /\ aspect_events[a] = raw_events[i] /\ aspect_events[b] = raw_events[j]

InList(a, aspects) == \E j \in 1..Len(aspects) : aspects[j] = a

\* C5: in every daily snapshot each progressed aspect within one degree is in
\* exactly one progression tier: the lunar tier if one of its bodies is the
\* Moon, the other tier if not; none is dropped.
C5_EveryProgressedAspectInOneTier ==
    \A key \in DOMAIN timeline_aspects_cache :
      LET day == timeline_aspects_cache[key]
          prog_aspects == calculate_aspects(day.progressed_pos, ProgressionOrb)
      IN  \A k \in 1..Len(prog_aspects) :
            LET a == prog_aspects[k]
            IN  IF a.p1 = "Moon" \/ a.p2 = "Moon"
                THEN InList(a, day.lunar_prog) /\ ~InList(a, day.other_prog)
                ELSE InList(a, day.other_prog) /\ ~InList(a, day.lunar_prog)

\* C6 as claimed: the sweep visits every day from start_date - 1 day through
\* start_date + months * 30 + 1 days.
C6_VisitsThroughOneDayPastWindow ==
    SweepRan =>
      /\ days_visited[1] = plus_days(start_date, -1)
      /\ days_visited[NumDaysVisited] =
            plus_days(start_date, months_to_display * DaysPerMonth + 1)

\* C6 as amended: the snapshot and the sweep visit one entry per calendar day
\* for every day from start_date - 1 day through start_date + months * 30
\* days, months * 30 + 2 entries, in ascending order.
C6_VisitsPadToWindowEnd ==
    SweepRan =>
      /\ NumDaysVisited = months_to_display * DaysPerMonth + 2
      /\ \A k \in 1..NumDaysVisited : days_visited[k] = plus_days(start_date, k - 2)
      /\ DOMAIN timeline_aspects_cache =
            date_of(start_date) - 1 .. date_of(start_date) + months_to_display * DaysPerMonth

\* a sweep over a window of a month: 32 days
C6_Witness ==
    /\ SweepRan
    /\ months_to_display = 1
    /\ NumDaysVisited = DaysPerMonth + 2
    /\ Cardinality(DOMAIN timeline_aspects_cache) = DaysPerMonth + 2

-----------------------------------------------------------------------------
(* Calls of the aspect detector on its own: the arguments are drawn at the  *)
(* start, the call computes the result.                                     *)

BaseLons == {0, 350}

OrbSet == {0, 1, 2, 7, MaxOrb}

Longitudes == 0..(FullCircle - 1)

body(n, lon, speed) == [name |-> n, pos |-> <<lon, speed>>]

\* placements of two bodies, in either order of insertion, and of three
SinglePlacements ==
    { <<body(ab[1], x, 1), body(ab[2], y, -1)>> \o extra :
        ab \in {p \in {"Mars", "Moon", "Sun"} \X {"Mars", "Moon", "Sun"} : p[1] # p[2]},
        x \in BaseLons, y \in Longitudes, extra \in {<<>>, <<body("Venus", 95, 1)>>} }

\* transiting bodies and natal bodies; a body may be in both
FirstPlacements ==
    { <<body("Jupiter", x, 1)>> \o extra :
        x \in BaseLons, extra \in {<<>>, <<body("Saturn", 200, -1)>>} }

SecondPlacements ==
    { <<body(b, y, 1)>> \o extra :
        b \in {"Jupiter", "Moon"}, y \in Longitudes, extra \in {<<>>, <<body("Sun", 20, 1)>>} }

InitCalls ==
    /\ eph = ephemeris([step |-> 0, turn |-> 0], [step |-> 0, turn |-> 0])
    /\ start_date = None
    /\ months_to_display = 0
    /\ birth_date = None
    /\ natal_planets = <<>>
    /\ natal_houses = <<>>
    /\ timeline_aspects_cache = <<>>
    /\ aspect_events = <<>>
    /\ raw_events = <<>>
    /\ days_visited = <<>>
    /\ \/ \E planets \in SinglePlacements, orb \in OrbSet :
            call = [fn |-> "calculate_aspects", planets1 |-> planets, planets2 |-> <<>>,
                    orb |-> orb, done |-> FALSE, result |-> <<>>]
       \/ \E planets1 \in FirstPlacements, planets2 \in SecondPlacements, orb \in OrbSet :
            call = [fn |-> "find_cross_aspects", planets1 |-> planets1,
                    planets2 |-> planets2, orb |-> orb, done |-> FALSE, result |-> <<>>]

CallCalculateAspects ==
    /\ call.fn = "calculate_aspects"
    /\ ~call.done
    /\ call' = [call EXCEPT !.done = TRUE,
                            !.result = calculate_aspects(call.planets1, call.orb)]
    /\ UNCHANGED widget_vars

CallFindCrossAspects ==
    /\ call.fn = "find_cross_aspects"
    /\ ~call.done
    /\ call' = [call EXCEPT !.done = TRUE,
                            !.result = find_cross_aspects(call.planets1, call.planets2,
                                                          call.orb)]
    /\ UNCHANGED widget_vars

NextCalls == CallCalculateAspects \/ CallFindCrossAspects

SpecCalls == InitCalls /\ [][NextCalls]_vars

-----------------------------------------------------------------------------
(* The claims about the aspect detector *)

CalcDone == call.fn = "calculate_aspects" /\ call.done

CrossDone == call.fn = "find_cross_aspects" /\ call.done

FiveKinds == {"Conjunction", "Sextile", "Square", "Trine", "Opposition"}

KindAngle(kind) ==
    CASE kind = "Conjunction" -> 0
      [] kind = "Semi-Sextile" -> 30
      [] kind = "Sextile" -> 60
      [] kind = "Square" -> 90
      [] kind = "Trine" -> 120
      [] kind = "Inconjunct" -> 150
      [] kind = "Opposition" -> 180

\* min(|x - y|, 360 - |x - y|)
ShorterArc(x, y) == Min(Abs(x - y), 360 - Abs(x - y))

OrbTo(kind, x, y) == Abs(ShorterArc(x, y) - KindAngle(kind))

\* the aspects of a kind emitted between the bodies named a and b
Between(kind, a, b) ==
    {k \in 1..Len(call.result) :
        /\ call.result[k].aspect = kind
        /\ {call.result[k].p1, call.result[k].p2} = {a, b}}

Lon(placement, i) == placement[i].pos[1]

\* C7: calculate_aspects emits an aspect of a kind K of the five between two
\* distinct bodies at x and y exactly when min(|x-y|, 360-|x-y|) is within orb
\* of K's angle, and the orb it emits is that distance.
C7_AspectIffWithinOrb ==
    CalcDone =>
      \A i, j \in 1..Len(call.planets1) : \A kind \in FiveKinds :
        i < j =>
          LET a == call.planets1[i].name
              b == call.planets1[j].name
              dist == OrbTo(kind, Lon(call.planets1, i), Lon(call.planets1, j))
          IN  /\ (Between(kind, a, b) # {}) <=> (dist <= call.orb)
              /\ \A k \in Between(kind, a, b) : call.result[k].orb = dist

\* an aspect found between two bodies more than 180 degrees apart in longitude
C7_Witness ==
    /\ CalcDone
    /\ Len(call.planets1) = 2
    /\ Abs(Lon(call.planets1, 1) - Lon(call.planets1, 2)) > 180
    /\ call.result # <<>>

\* C8 as claimed: calculate_aspects tests seven kinds, so a pair within orb of
\* 30 degrees yields a Semi-Sextile and a pair within orb of 150 degrees an
\* Inconjunct.
C8_SevenKindsScanned ==
    CalcDone =>
      \A i, j \in 1..Len(call.planets1) : \A kind \in {"Semi-Sextile", "Inconjunct"} :
        (i < j /\ OrbTo(kind, Lon(call.planets1, i), Lon(call.planets1, j)) <= call.orb)
          => Between(kind, call.planets1[i].name, call.planets1[j].name) # {}

\* C8 as amended: calculate_aspects tests the same five kinds as
\* find_cross_aspects: neither emits another kind, and a pair within orb of 30
\* or 150 degrees and of none of the five angles yields no aspect.
C8_FiveKindsOnly ==
    /\ (CalcDone \/ CrossDone) =>
         \A k \in 1..Len(call.result) : call.result[k].aspect \in FiveKinds
    /\ CalcDone =>
         \A i, j \in 1..Len(call.planets1) :
           (/\ i < j
            /\ \A kind \in FiveKinds :
                 OrbTo(kind, Lon(call.planets1, i), Lon(call.planets1, j)) > call.orb)
             => \A k \in 1..Len(call.result) :
                  {call.result[k].p1, call.result[k].p2}
                     # {call.planets1[i].name, call.planets1[j].name}

\* two bodies exactly 30 degrees apart, scanned with orb 2: nothing found
C8_Witness ==
    /\ CalcDone
    /\ Len(call.planets1) = 2
    /\ ShorterArc(Lon(call.planets1, 1), Lon(call.planets1, 2)) = 30
    /\ call.orb = 2
    /\ call.result = <<>>

Alphabetical == <<"Jupiter", "Mars", "Mercury", "Moon", "Neptune",
                  "Pluto", "Saturn", "Sun", "Uranus", "Venus">>

Rank(n) == CHOOSE k \in 1..Len(Alphabetical) : Alphabetical[k] = n

\* C9: in every aspect of calculate_aspects p1 <= p2 in the order of the
\* strings and name is "p1 kind p2"; a placement of two bodies gives the same
\* result whichever body is inserted first; "A kind B" and "B kind A" never
\* both occur.
C9_CanonicalNames ==
    CalcDone =>
      /\ \A k \in 1..Len(call.result) :
           /\ Rank(call.result[k].p1) <= Rank(call.result[k].p2)
           /\ call.result[k].name =
                 <<call.result[k].p1, call.result[k].aspect, call.result[k].p2>>
      /\ Len(call.planets1) = 2 =>
           call.result = calculate_aspects(<<call.planets1[2], call.planets1[1]>>, call.orb)
      /\ \A k, m \in 1..Len(call.result) :
           ~ /\ call.result[k].p1 # call.result[k].p2
             /\ call.result[k].p1 = call.result[m].p2
             /\ call.result[k].p2 = call.result[m].p1
             /\ call.result[k].aspect = call.result[m].aspect

\* an aspect found for two bodies inserted in descending order of their names
C9_Witness ==
    /\ CalcDone
    /\ Len(call.planets1) = 2
    /\ Rank(call.planets1[1].name) > Rank(call.planets1[2].name)
    /\ call.result # <<>>
    /\ call.result[1].p1 = call.planets1[2].name

\* the emitted aspects of a kind with p1 the i-th body of the first set and p2
\* the j-th body of the second
CrossHits(kind, i, j) ==
    {k \in 1..Len(call.result) :
        /\ call.result[k].aspect = kind
        /\ call.result[k].p1 = call.planets1[i].name
        /\ call.result[k].p2 = call.planets2[j].name
        /\ call.result[k].name =
              <<call.planets1[i].name, kind, call.planets2[j].name>>}

\* C10: find_cross_aspects applies the test to every pair (a of the first
\* set, b of the second), pairs of one name included; p1 is the body of the
\* first set, p2 the body of the second, name is "p1 kind p2"; nothing is
\* sorted or removed.
C10_CrossPairsOrdered ==
    CrossDone =>
      /\ \A i \in 1..Len(call.planets1), j \in 1..Len(call.planets2), kind \in FiveKinds :
           Cardinality(CrossHits(kind, i, j)) =
              IF OrbTo(kind, Lon(call.planets1, i), Lon(call.planets2, j)) <= call.orb
              THEN 1 ELSE 0
      /\ \A k \in 1..Len(call.result) :
           \E i \in 1..Len(call.planets1), j \in 1..Len(call.planets2) :
              k \in CrossHits(call.result[k].aspect, i, j)

\* an aspect of a body to the body of the same name, and one whose p1 comes
\* after its p2 in the order of the strings
C10_Witness ==
    /\ CrossDone
    /\ \E k \in 1..Len(call.result) : call.result[k].p1 = call.result[k].p2
    /\ \E k \in 1..Len(call.result) :
         Rank(call.result[k].p1) > Rank(call.result[k].p2)

-----------------------------------------------------------------------------
(* astro_engine.py: the predictive functions, called on their own.  The Sun *)
(* moves one degree a tick, the Moon turns round (a station), the other     *)
(* bodies stand still.                                                      *)

MaxTargetDay == 6

SunBases == {0, 350}

EngineMoonMotions == {[step |-> 1, turn |-> 3], [step |-> -1, turn |-> 0]}

engine_ephemeris(sun_base, mm) ==
    [n \in PlanetSet |->
        IF n = "Sun" THEN [base |-> sun_base, step |-> 1, turn |-> 0]
        ELSE IF n = "Moon" THEN [still(n) EXCEPT !.step = mm.step, !.turn = mm.turn]
        ELSE still(n)]

EngineEphSet == {engine_ephemeris(b, mm) : b \in SunBases, mm \in EngineMoonMotions}

TargetInstants == 0..(MaxTargetDay * TicksPerDay + TicksPerDay - 1)

calculate_solar_arc_unwrapped(birth, target_date) ==
    LET days_offset == date_of(target_date) - date_of(birth)
        progression_date == plus_days(birth, days_offset)
        natal_sun_lon == get_planet_position(birth, "Sun")[1]
        prog_sun_lon == get_planet_position(progression_date, "Sun")[1]
        solar_arc == IF prog_sun_lon - natal_sun_lon < 0
                     THEN prog_sun_lon - natal_sun_lon + FullCircle
                     ELSE prog_sun_lon - natal_sun_lon
        chart == calculate_natal_chart(birth)
    IN  list([k \in 1..Len(chart) |->
            [name |-> chart[k].name,
             pos |-> <<chart[k].pos[1] + solar_arc, chart[k].pos[2]>>]])
calculate_solar_arc_progressions(birth, target_date) ==
    LET days_offset == date_of(target_date) - date_of(birth)
        progression_date == plus_days(birth, days_offset)
        natal_sun_lon == get_planet_position(birth, "Sun")[1]
        prog_sun_lon == get_planet_position(progression_date, "Sun")[1]
        solar_arc == IF prog_sun_lon - natal_sun_lon < 0
                     THEN prog_sun_lon - natal_sun_lon + FullCircle
                     ELSE prog_sun_lon - natal_sun_lon
        chart == calculate_natal_chart(birth)
    IN  list([k \in 1..Len(chart) |->
            [name |-> chart[k].name,
             pos |-> <<(chart[k].pos[1] + solar_arc) % FullCircle, chart[k].pos[2]>>]])

-----------------------------------------------------------------------------
(* _find_return_jd *)

MaxIterations == 5

\* angle_diff = natal_lon - current_lon, then the two corrections by 360
angle_difference_one_sided(natal_lon, current_lon) ==
    LET d0 == natal_lon - current_lon
    IN  IF d0 > HalfCircle THEN d0 - FullCircle ELSE d0
angle_difference(natal_lon, current_lon) ==
    LET d0 == natal_lon - current_lon
        d1 == IF d0 > HalfCircle THEN d0 - FullCircle ELSE d0
    IN  IF d1 < -HalfCircle THEN d1 + FullCircle ELSE d1

\* angle_diff / speed, in ticks; speed is in degrees a day
time_offset_in_days(angle_diff, speed) ==
    IF speed > 0 THEN angle_diff \div speed ELSE -(angle_diff \div (-speed))
time_offset(angle_diff, speed) ==
    IF speed > 0 THEN (angle_diff * TicksPerDay) \div speed
    ELSE -((angle_diff * TicksPerDay) \div (-speed))

\* One pass through the loop.  s is the state of the loop: the
\* estimate t_jd, what the pass read last, whether it left by break, and the
\* counts of the ephemeris evaluations and of the updates of the estimate.
\* A speed in whole degrees a day is above 1e-9 exactly when it is not 0.
find_return_pass(natal_lon, body_id, s) ==
    LET pos_at_t == get_planet_position(s.t_jd, body_id)
        current_lon == pos_at_t[1]
        speed == pos_at_t[2]
        angle_diff == angle_difference(natal_lon, current_lon)
    IN  IF Abs(speed) > 0
        THEN [t_jd |-> s.t_jd + time_offset(angle_diff, speed),
              current_lon |-> current_lon, speed |-> speed, angle_diff |-> angle_diff,
              broke |-> FALSE,
              evaluations |-> s.evaluations + 1, updates |-> s.updates + 1]
        ELSE [t_jd |-> s.t_jd,
              current_lon |-> current_lon, speed |-> speed, angle_diff |-> angle_diff,
              broke |-> TRUE,
              evaluations |-> s.evaluations + 1, updates |-> s.updates]

\* the state of the loop before its first pass: t_jd = start_jd
find_return_start(start_jd) ==
    [t_jd |-> start_jd, current_lon |-> None, speed |-> None, angle_diff |-> None,
     broke |-> FALSE, evaluations |-> 0, updates |-> 0]

RECURSIVE find_return_loop(_, _, _, _)
find_return_loop(natal_lon, body_id, s, i) ==
    IF i >= MaxIterations \/ s.broke THEN s
    ELSE find_return_loop(natal_lon, body_id, find_return_pass(natal_lon, body_id, s), i + 1)

\* _find_return_jd(natal_lon, body_id, start_jd)
find_return_jd(natal_lon, body_id, start_jd) ==
    find_return_loop(natal_lon, body_id, find_return_start(start_jd), 0).t_jd

-----------------------------------------------------------------------------
(* The calendar (datetime, swe.utc_to_jd, swe.jdut1_to_utc).  A year is the *)
(* whole number of days of one revolution of the Sun; every LeapEvery-th    *)
(* year has a day more, its last.  A calendar date is the year, the day of  *)
(* the year (month and day) from 0 and the tick of the day (the time).      *)

MaxYear == 2

LeapEvery == 2

YearDays == FullCircle \div TicksPerDay

\* the days before the first day of a year
year_start(year) == year * YearDays + (year \div LeapEvery)

days_in_year(year) == year_start(year + 1) - year_start(year)

year_of(t) ==
    CHOOSE year \in -8..(MaxYear + 8) :
        year_start(year) <= date_of(t) /\ date_of(t) < year_start(year + 1)

day_of_year(t) == date_of(t) - year_start(year_of(t))

\* swe.utc_to_jd refuses a date that is not in the calendar
valid_date(year, day) == 0 <= day /\ day < days_in_year(year)

\* swe.utc_to_jd(year, month, day, hour, minute, second, 1)[1]
utc_to_jd(year, day, tick) == (year_start(year) + day) * TicksPerDay + tick

\* swe.jdut1_to_utc(jd, 1)
jdut1_to_utc(jd) == [year |-> year_of(jd), day |-> day_of_year(jd), tick |-> jd % TicksPerDay]

\* datetime(year, month, day, hour, minute, second, microsecond, tzinfo = utc)
datetime(date) == (year_start(date.year) + date.day) * TicksPerDay + date.tick

-----------------------------------------------------------------------------
(* calculate_solar_return, calculate_lunar_return *)

HouseSystems == {"P", "K"}

\* swe.houses(jd, lat, lon, house_system)[0]: the cusps differ with the
\* house system but for the four angles
swe_houses(t, house_system) ==
    IF house_system = "P" THEN houses(t)
    ELSE [i \in 1..12 |-> IF i % 3 = 1 THEN houses(t)[i]
                          ELSE (houses(t)[i] + 5) % FullCircle]

calculate_solar_return(birth, target_year, house_system) ==
    LET natal_sun_lon == get_planet_position(birth, "Sun")[1]
    IN  IF ~valid_date(target_year, day_of_year(birth))
        THEN [raised |-> "swisseph.Error"]
        ELSE
          LET start_jd_ut_for_search == utc_to_jd(target_year, day_of_year(birth), 0)
              return_jd == find_return_jd(natal_sun_lon, "Sun", start_jd_ut_for_search)
              return_date == datetime(jdut1_to_utc(return_jd))
          IN  [raised |-> "none",
               search_start |-> start_jd_ut_for_search,
               return_planets |-> calculate_natal_chart(return_date),
               return_houses |-> swe_houses(return_date, house_system),
               return_date |-> return_date]

\* calculate_lunar_return(birth_date, target_date, latitude, longitude) called
\* with the keyword arguments kwargs: it has no parameter house_system
calculate_lunar_return(birth, target_date, kwargs) ==
    IF kwargs # {}
    THEN [raised |-> "TypeError"]
    ELSE
      LET natal_moon_lon == get_planet_position(birth, "Moon")[1]
          start_jd_ut_for_search ==
              utc_to_jd(year_of(target_date), day_of_year(target_date), 0)
          return_jd == find_return_jd(natal_moon_lon, "Moon", start_jd_ut_for_search)
          return_date == datetime(jdut1_to_utc(return_jd))
      IN  [raised |-> "none",
           search_start |-> start_jd_ut_for_search,
           return_planets |-> calculate_natal_chart(return_date),
           return_houses |-> swe_houses(return_date, "P"),
           return_date |-> return_date]

-----------------------------------------------------------------------------
(* Calls of the predictive functions: the ephemeris and the arguments are   *)
(* drawn at the start; _find_return_jd runs pass by pass.                   *)

ReturnBodies == {"Sun", "Moon", "Mercury"}

SearchStarts == {0, 7, 2 * FullCircle + 40}

\* births on the first, the second and the last day of the years 0 and 1
ReturnBirths ==
    { utc_to_jd(year, day, tick) :
        year \in {0, 1}, day \in {0, 1, YearDays - 1, YearDays}, tick \in 0..(TicksPerDay - 1) }
        \cap { t \in 0..(3 * YearDays * TicksPerDay) : year_of(t) \in {0, 1} }

LunarTargets == {0, 3 * TicksPerDay + 1}

engine_widget_init ==
    /\ start_date = None
    /\ months_to_display = 0
    /\ birth_date = None
    /\ natal_planets = <<>>
    /\ natal_houses = <<>>
    /\ timeline_aspects_cache = <<>>
    /\ aspect_events = <<>>
    /\ raw_events = <<>>
    /\ days_visited = <<>>

InitEngine ==
    /\ eph \in EngineEphSet
    /\ engine_widget_init
    /\ \/ \E birth \in BirthInstants, target \in TargetInstants,
             fn \in {"calculate_secondary_progressions",
                     "calculate_solar_arc_progressions"} :
            call = [fn |-> fn, birth |-> birth, target |-> target,
                    done |-> FALSE, result |-> <<>>]
       \/ \E natal_lon \in Longitudes, body_id \in ReturnBodies, start_jd \in SearchStarts :
            call = [fn |-> "_find_return_jd", natal_lon |-> natal_lon, body_id |-> body_id,
                    start_jd |-> start_jd, loop |-> find_return_start(start_jd),
                    iteration |-> 0, done |-> FALSE, result |-> None]
       \/ \E birth \in ReturnBirths, target_year \in 0..MaxYear, hs \in HouseSystems :
            call = [fn |-> "calculate_solar_return", birth |-> birth,
                    target_year |-> target_year, house_system |-> hs,
                    done |-> FALSE, result |-> <<>>]
       \/ \E birth \in BirthInstants, target \in LunarTargets, hs \in HouseSystems,
             kwargs \in {{}, {"house_system"}} :
            call = [fn |-> "calculate_lunar_return", birth |-> birth, target |-> target,
                    kwargs |-> kwargs, house_system |-> hs,
                    done |-> FALSE, result |-> <<>>]

CallSecondaryProgressions ==
    /\ call.fn = "calculate_secondary_progressions"
    /\ ~call.done
    /\ call' = [call EXCEPT !.done = TRUE,
                  !.result = calculate_secondary_progressions(call.birth, call.target)]
    /\ UNCHANGED widget_vars

CallSolarArcProgressions ==
    /\ call.fn = "calculate_solar_arc_progressions"
    /\ ~call.done
    /\ call' = [call EXCEPT !.done = TRUE,
                  !.result = calculate_solar_arc_progressions(call.birth, call.target)]
    /\ UNCHANGED widget_vars

\* for _ in range(5): one more pass
FindReturnPassOneMore ==
    /\ call.fn = "_find_return_jd"
    /\ ~call.done
    /\ call.iteration <= MaxIterations
    /\ ~call.loop.broke
    /\ call' = [call EXCEPT !.iteration = @ + 1,
                  !.loop = find_return_pass(call.natal_lon, call.body_id, call.loop)]
    /\ UNCHANGED widget_vars
FindReturnPass ==
    /\ call.fn = "_find_return_jd"
    /\ ~call.done
    /\ call.iteration < MaxIterations
    /\ ~call.loop.broke
    /\ call' = [call EXCEPT !.iteration = @ + 1,
                  !.loop = find_return_pass(call.natal_lon, call.body_id, call.loop)]
    /\ UNCHANGED widget_vars

\* return t_jd, after the last pass or after break
FindReturnReturn ==
    /\ call.fn = "_find_return_jd"
    /\ ~call.done
    /\ call.iteration >= MaxIterations \/ call.loop.broke
    /\ call' = [call EXCEPT !.done = TRUE, !.result = call.loop.t_jd]
    /\ UNCHANGED widget_vars

CallSolarReturn ==
    /\ call.fn = "calculate_solar_return"
    /\ ~call.done
    /\ call' = [call EXCEPT !.done = TRUE,
                  !.result = calculate_solar_return(call.birth, call.target_year,
                                                    call.house_system)]
    /\ UNCHANGED widget_vars

\* MainWindow.update_chart passes house_system = house_system_code; the
\* self-test of astro_engine.py passes no keyword
CallLunarReturn ==
    /\ call.fn = "calculate_lunar_return"
    /\ ~call.done
    /\ call' = [call EXCEPT !.done = TRUE,
                  !.result = calculate_lunar_return(call.birth, call.target, call.kwargs)]
    /\ UNCHANGED widget_vars

NextEngine ==
    \/ CallSecondaryProgressions
    \/ CallSolarArcProgressions
    \/ FindReturnPass
    \/ FindReturnReturn
    \/ CallSolarReturn
    \/ CallLunarReturn

SpecEngine == InitEngine /\ [][NextEngine]_vars

\* the loop is scheduled until it returns
SpecEngineFair == SpecEngine /\ WF_vars(FindReturnPass) /\ WF_vars(FindReturnReturn)

-----------------------------------------------------------------------------
(* The claims about the predictive functions *)

ProgressionsDone == call.fn = "calculate_secondary_progressions" /\ call.done

\* the instant on the calendar day of target at the time of day of birth
SameTimeOnDayOf(birth, target) == date_of(target) * TicksPerDay + (birth % TicksPerDay)

\* C11: calculate_secondary_progressions(birth, target) returns the positions
\* of the ten bodies at birth + k days, k the difference of the calendar
\* dates: the instant has the time of day of birth, the result is the same
\* for every target of the same calendar day, and a target before birth
\* gives the positions of an instant before birth.
C11_ProgressedInstant ==
    ProgressionsDone =>
      LET k == date_of(call.target) - date_of(call.birth)
          t == call.birth + k * TicksPerDay
      IN  /\ t = SameTimeOnDayOf(call.birth, call.target)
          /\ Len(call.result) = Len(PLANETS)
          /\ \A i \in 1..Len(PLANETS) :
               /\ call.result[i].name = PLANETS[i]
               /\ call.result[i].pos = get_planet_position(t, PLANETS[i])
          /\ \A other \in TargetInstants :
               date_of(other) = date_of(call.target) =>
                  calculate_secondary_progressions(call.birth, other) = call.result
          /\ call.target < call.birth => t <= call.birth

\* a target on a day before birth, at another time of day than birth
C11_Witness ==
    /\ ProgressionsDone
    /\ date_of(call.target) < date_of(call.birth)
    /\ call.target % TicksPerDay # call.birth % TicksPerDay
    /\ Len(call.result) = Len(PLANETS)
    /\ dict_get(call.result, "Sun") # get_planet_position(call.birth, "Sun")

SolarArcDone == call.fn = "calculate_solar_arc_progressions" /\ call.done

\* (progressed Sun longitude - natal Sun longitude) in [0, 360)
ArcOf(birth, target) ==
    (get_planet_position(SameTimeOnDayOf(birth, target), "Sun")[1]
        - get_planet_position(birth, "Sun")[1]) % 360

\* C13: every one of the ten natal bodies is returned at (natal longitude +
\* arc) mod 360, a longitude in [0, 360), with its natal speed; the arc is
\* (progressed Sun - natal Sun) in [0, 360).
C13_SolarArcShiftsEveryBody ==
    SolarArcDone =>
      LET arc == ArcOf(call.birth, call.target)
      IN  /\ arc \in 0..359
          /\ Len(call.result) = Len(PLANETS)
          /\ \A i \in 1..Len(PLANETS) :
               LET natal == get_planet_position(call.birth, PLANETS[i])
               IN  /\ call.result[i].name = PLANETS[i]
                   /\ call.result[i].pos[1] = (natal[1] + arc) % 360
                   /\ call.result[i].pos[1] \in 0..359
                   /\ call.result[i].pos[2] = natal[2]

\* the progressed Sun is past 0 degrees and the natal Sun before it, a body is
\* carried past 0 degrees, and the Moon's speed at the progressed instant is
\* not its natal speed
C13_Witness ==
    /\ SolarArcDone
    /\ get_planet_position(SameTimeOnDayOf(call.birth, call.target), "Sun")[1]
          < get_planet_position(call.birth, "Sun")[1]
    /\ \E i \in 1..Len(PLANETS) :
          call.result[i].pos[1] < get_planet_position(call.birth, PLANETS[i])[1]
    /\ get_planet_position(SameTimeOnDayOf(call.birth, call.target), "Moon")[2]
          # get_planet_position(call.birth, "Moon")[2]
    /\ dict_get(call.result, "Moon")[2] = get_planet_position(call.birth, "Moon")[2]

FindReturnCalled == call.fn = "_find_return_jd"

FindReturnDone == FindReturnCalled /\ call.done

\* what the loop has done so far is within the five passes
FindReturnWithinFivePasses ==
    FindReturnCalled =>
      /\ call.iteration <= 5
      /\ call.loop.evaluations = call.iteration
      /\ call.loop.evaluations <= 5
      /\ call.loop.updates <= 5
      /\ (call.iteration >= 1 /\ ~call.loop.broke) =>
            (call.loop.speed # 0 /\ call.loop.updates = call.iteration)
      /\ call.loop.broke =>
            /\ call.loop.speed = 0
            /\ call.loop.updates = call.iteration - 1
            /\ get_planet_position(call.loop.t_jd, call.body_id)[2] = 0
      /\ call.done =>
            /\ call.result = call.loop.t_jd
            /\ call.loop.broke \/ call.iteration = 5

\* C14: _find_return_jd always returns: after at most 5 ephemeris evaluations
\* and 5 updates of the estimate, at the first pass that reads a negligible
\* speed with the estimate of that pass, otherwise after exactly 5 passes,
\* converged or not.
C14_ReturnSearchTerminates ==
    /\ []FindReturnWithinFivePasses
    /\ FindReturnCalled ~> FindReturnDone

\* five passes were made and the body is not at the longitude sought
C14_Witness ==
    /\ FindReturnDone
    /\ call.iteration = 5
    /\ ~call.loop.broke
    /\ get_planet_position(call.result, call.body_id)[1] # call.natal_lon

\* C15 as claimed: the difference target - current is in (-180, 180].
C15_DifferenceNeverMinus180 ==
    (FindReturnCalled /\ call.iteration >= 1) =>
      (call.loop.angle_diff > -180 /\ call.loop.angle_diff <= 180)

\* C15 as amended: the difference is in [-180, 180] and congruent to target -
\* current; it is -180 exactly when current is 180 degrees past target.
C15_DifferenceWithinHalfCircle ==
    (FindReturnCalled /\ call.iteration >= 1) =>
      /\ call.loop.angle_diff \in -180..180
      /\ (call.loop.angle_diff - (call.natal_lon - call.loop.current_lon)) % 360 = 0
      /\ (call.loop.angle_diff = -180) <=> (call.loop.current_lon - call.natal_lon = 180)

\* a pass with the body exactly 180 degrees past the longitude sought
C15_Witness ==
    /\ FindReturnCalled
    /\ call.iteration >= 1
    /\ call.loop.current_lon - call.natal_lon = 180
    /\ call.loop.angle_diff = -180

SunReturnDone == FindReturnDone /\ call.body_id = "Sun"

\* C16 as claimed: for the Sun the instant returned has the longitude sought
\* and is in the calendar year of the search start.
C16_ReturnInYearOfStart ==
    SunReturnDone =>
      /\ get_planet_position(call.result, "Sun")[1] = call.natal_lon
      /\ year_of(call.result) = year_of(call.start_jd)

\* C16 as amended: for the Sun the instant returned has the longitude sought
\* and is the return nearest to the search start, at most half a revolution
\* before or after it.
C16_NearestReturn ==
    SunReturnDone =>
      /\ call.iteration = 5
      /\ get_planet_position(call.result, "Sun")[1] = call.natal_lon
      /\ Abs(call.result - call.start_jd) * eph["Sun"].step <= HalfCircle

\* a return of the Sun found in the year before the search start
C16_Witness ==
    /\ SunReturnDone
    /\ get_planet_position(call.result, "Sun")[1] = call.natal_lon
    /\ year_of(call.result) < year_of(call.start_jd)

SolarReturnDone == call.fn = "calculate_solar_return" /\ call.done

\* C17: calculate_solar_return seeds the search at the birth month and day,
\* 00:00, of target_year; for every birth and target year it returns an
\* instant of the calendar year target_year, and the chart returned is the
\* chart of that instant.
C17_SolarReturnInTargetYear ==
    SolarReturnDone =>
      /\ call.result.raised = "none"
      /\ call.result.search_start = utc_to_jd(call.target_year, day_of_year(call.birth), 0)
      /\ year_of(call.result.return_date) = call.target_year
      /\ call.result.return_planets = calculate_natal_chart(call.result.return_date)
      /\ call.result.return_houses = swe_houses(call.result.return_date, call.house_system)

LunarReturnDone == call.fn = "calculate_lunar_return" /\ call.done

\* C18: calculate_lunar_return takes the caller's house system: a call with
\* house_system, as the main window makes it, returns a chart, and its cusps
\* are those of the house system passed.
C18_LunarReturnTakesHouseSystem ==
    (LunarReturnDone /\ "house_system" \in call.kwargs) =>
      /\ call.result.raised = "none"
      /\ call.result.return_houses = swe_houses(call.result.return_date, call.house_system)

-----------------------------------------------------------------------------
(* The house of a longitude: _get_house_for_position of                     *)
(* timeline_grid_widget.py and _get_house_for_planet of time_map_widget.py  *)

\* str(n) of a house number
str(n) == <<"1", "2", "3", "4", "5", "6", "7", "8", "9", "10", "11", "12">>[n]

\* the indices i of range(11) with natal_houses[i] <= position < natal_houses[i+1]
standard_cases(cusps, position) ==
    {i \in 0..10 : cusps[i + 1] <= position /\ position < cusps[i + 2]}

least(S) == CHOOSE x \in S : \A y \in S : x <= y

get_house_for_position_above_only(cusps, position) ==
    IF cusps = <<>> \/ position = None THEN "N/A"
    ELSE IF standard_cases(cusps, position) # {}
    THEN str(least(standard_cases(cusps, position)) + 1)
    ELSE IF cusps[12] <= position /\ position < FullCircle
    THEN "12"
    ELSE "N/A"
get_house_for_position(cusps, position) ==
    IF cusps = <<>> \/ position = None THEN "N/A"
    ELSE IF standard_cases(cusps, position) # {}
    THEN str(least(standard_cases(cusps, position)) + 1)
    ELSE IF \/ (cusps[12] <= position /\ position < FullCircle)
            \/ (0 <= position /\ position < cusps[1])
    THEN "12"
    ELSE "N/A"

\* time_map_widget.py: the same search, with numbers and 0 for no house
get_house_for_planet(cusps, planet_pos) ==
    IF cusps = <<>> THEN 0
    ELSE IF standard_cases(cusps, planet_pos) # {}
    THEN least(standard_cases(cusps, planet_pos)) + 1
    ELSE IF \/ (cusps[12] <= planet_pos /\ planet_pos < FullCircle)
            \/ (0 <= planet_pos /\ planet_pos < cusps[1])
    THEN 12
    ELSE 0

\* The widths of the twelve houses: equal houses, and unequal houses of which
\* opposite ones are as wide
HouseWidths == { <<30, 30, 30, 30, 30, 30, 30, 30, 30, 30, 30, 30>>,
                 <<22, 35, 33, 25, 28, 37, 22, 35, 33, 25, 28, 37>> }

AscendantStep == 9

Ascendants == {a \in Longitudes : a % AscendantStep = 0}

RECURSIVE sum_before(_, _)
sum_before(widths, i) == IF i <= 1 THEN 0 ELSE widths[i - 1] + sum_before(widths, i - 1)

\* swe.houses(...)[0] for an Ascendant anywhere on the circle
cusps_from(asc, widths) == [i \in 1..12 |-> (asc + sum_before(widths, i)) % FullCircle]

CuspSets == {cusps_from(asc, widths) : asc \in Ascendants, widths \in HouseWidths}

InitHouses ==
    /\ eph = ephemeris([step |-> 0, turn |-> 0], [step |-> 0, turn |-> 0])
    /\ start_date = None
    /\ months_to_display = 0
    /\ birth_date = TicksPerDay
    /\ natal_planets = calculate_natal_chart(TicksPerDay)
    /\ natal_houses \in CuspSets
    /\ timeline_aspects_cache = <<>>
    /\ aspect_events = <<>>
    /\ raw_events = <<>>
    /\ days_visited = <<>>
    /\ \E fn \in {"_get_house_for_position", "_get_house_for_planet"},
          position \in Longitudes :
            call = [fn |-> fn, position |-> position, done |-> FALSE, result |-> None]

CallGetHouseForPosition ==
    /\ call.fn = "_get_house_for_position"
    /\ ~call.done
    /\ call' = [call EXCEPT !.done = TRUE,
                            !.result = get_house_for_position(natal_houses, call.position)]
    /\ UNCHANGED widget_vars

CallGetHouseForPlanet ==
    /\ call.fn = "_get_house_for_planet"
    /\ ~call.done
    /\ call' = [call EXCEPT !.done = TRUE,
                            !.result = get_house_for_planet(natal_houses, call.position)]
    /\ UNCHANGED widget_vars

NextHouses == CallGetHouseForPosition \/ CallGetHouseForPlanet

SpecHouses == InitHouses /\ [][NextHouses]_vars

-----------------------------------------------------------------------------
(* The claims about the house of a longitude *)

HouseForPositionDone == call.fn = "_get_house_for_position" /\ call.done

HouseForPlanetDone == call.fn = "_get_house_for_planet" /\ call.done

\* C19: the longitude of cusp i, i = 0..11, of twelve distinct cusps that
\* ascend round the circle is in house i + 1, wherever 0 degrees falls.
C19_CuspOpensItsHouse ==
    \A i \in 1..12 :
      /\ (HouseForPositionDone /\ call.position = natal_houses[i]) => call.result = str(i)
      /\ (HouseForPlanetDone /\ call.position = natal_houses[i]) => call.result = i

\* C20: for every longitude in [0, 360) and twelve cusps that ascend round
\* the circle the lookup returns a house number of 1..12, never "N/A" or 0.
C20_HouseLookupTotal ==
    /\ HouseForPositionDone => \E n \in 1..12 : call.result = str(n)
    /\ HouseForPlanetDone => call.result \in 1..12

\* 0 degrees falls inside a house that is not the twelfth, and the longitude
\* looked up is in that house, before 0 degrees
C20_Witness ==
    /\ HouseForPositionDone
    /\ \E k \in 1..11 :
         /\ natal_houses[k] > natal_houses[k + 1]
         /\ call.position > natal_houses[k]
    /\ call.result = "12"

-----------------------------------------------------------------------------
(* A session: calls of calculate_secondary_progressions with the widget's   *)
(* operations and other engine calls between them.  call.earlier keeps, by  *)
(* the arguments, what the first call with them returned and the view the   *)
(* widget had then.                                                         *)

SessionTargets == {0, 3 * TicksPerDay + 1}

InitSession ==
    /\ eph \in {engine_ephemeris(b, [step |-> 1, turn |-> 3]) : b \in SunBases}
    /\ engine_widget_init
    /\ call = [fn |-> "none", earlier |-> <<>>, repeated |-> FALSE]

SessionProgressions ==
    \E birth \in BirthInstants, target \in SessionTargets :
      LET key == <<birth, target>>
          result == calculate_secondary_progressions(birth, target)
      IN  /\ call' = [fn |-> "calculate_secondary_progressions",
                      birth |-> birth, target |-> target, result |-> result,
                      repeated |-> key \in DOMAIN call.earlier,
                      earlier |-> IF key \in DOMAIN call.earlier THEN call.earlier
                                  ELSE call.earlier @@
                                       (key :> [result |-> result, view |-> start_date])]
          /\ UNCHANGED widget_vars

SessionSolarArc ==
    \E birth \in BirthInstants, target \in SessionTargets :
      /\ call' = [fn |-> "calculate_solar_arc_progressions",
                  birth |-> birth, target |-> target,
                  result |-> calculate_solar_arc_progressions(birth, target),
                  repeated |-> FALSE, earlier |-> call.earlier]
      /\ UNCHANGED widget_vars

\* set_view for a window of no months: the two pad days
SessionSetView == \E start \in StartInstants, rev \in BOOLEAN : set_view(start, 0, rev)

NextSession == SetChartData \/ SessionSetView \/ SessionProgressions \/ SessionSolarArc

SpecSession == InitSession /\ [][NextSession]_vars

-----------------------------------------------------------------------------
(* astro_engine.py: get_zodiac_sign, called on its own *)

signs == <<"Aries", "Taurus", "Gemini", "Cancer", "Leo", "Virgo", "Libra",
           "Scorpio", "Sagittarius", "Capricorn", "Aquarius", "Pisces">>

SignWidth == 30

\* signs[round(degree / 30)]
get_zodiac_sign_nearest(degree) ==
    signs[(((degree + SignWidth \div 2) \div SignWidth) % Len(signs)) + 1]
\* signs[int(degree / 30)]; a list is indexed from 0
get_zodiac_sign(degree) == signs[(degree \div SignWidth) + 1]

InitSigns ==
    /\ eph = ephemeris([step |-> 0, turn |-> 0], [step |-> 0, turn |-> 0])
    /\ engine_widget_init
    /\ \E degree \in Longitudes :
         call = [fn |-> "get_zodiac_sign", degree |-> degree, done |-> FALSE,
                 result |-> "none"]

CallGetZodiacSign ==
    /\ call.fn = "get_zodiac_sign"
    /\ ~call.done
    /\ call' = [call EXCEPT !.done = TRUE, !.result = get_zodiac_sign(call.degree)]
    /\ UNCHANGED widget_vars

NextSigns == CallGetZodiacSign

SpecSigns == InitSigns /\ [][NextSigns]_vars

ZodiacSignDone == call.fn = "get_zodiac_sign" /\ call.done

\* the twelve signs in the order of the zodiac, Aries first
ZodiacOrder ==
    [k \in 0..11 |->
        CASE k = 0 -> "Aries"  [] k = 1 -> "Taurus"  [] k = 2 -> "Gemini"
          [] k = 3 -> "Cancer" [] k = 4 -> "Leo"     [] k = 5 -> "Virgo"
          [] k = 6 -> "Libra"  [] k = 7 -> "Scorpio" [] k = 8 -> "Sagittarius"
          [] k = 9 -> "Capricorn" [] k = 10 -> "Aquarius" [] k = 11 -> "Pisces"]

\* C21: for every longitude L of [0, 360) get_zodiac_sign returns the k-th
\* sign, Aries being the 0-th, for the k with 30k <= L < 30k + 30: a multiple
\* of 30 belongs to the sign that starts there, 0 is Aries, [330, 360) Pisces.
C21_SignOfLongitude ==
    ZodiacSignDone =>
      /\ \A k \in 0..11 :
           (30 * k <= call.degree /\ call.degree < 30 * k + 30)
              => call.result = ZodiacOrder[k]
      /\ call.degree = 0 => call.result = "Aries"
      /\ call.degree >= 330 => call.result = "Pisces"

\* a longitude on the border of two signs, and the last degree of the circle
C21_Witness ==
    /\ ZodiacSignDone
    /\ call.degree \in {30, 359}
    /\ call.result \in {"Taurus", "Pisces"}

-----------------------------------------------------------------------------
(* The timeline: the stored events and the stored chart and window *)

\* what the pipeline gives for a chart and a window
pipeline_events(birth, natal, start, months, rev) ==
    LET cache == calculate_daily_aspects(birth, natal, start, months)
        raw == raw_events_of(cache, start, months, rev)
    IN  IF cache = <<>> \/ raw = <<>> THEN <<>> ELSE merge_events(raw)

\* the same events, in whatever order the iteration of ended_names left them
same_events(a, b) ==
    /\ Len(a) = Len(b)
    /\ \A k \in 1..Len(a) :
         Cardinality({j \in 1..Len(a) : a[j] = a[k]})
            = Cardinality({j \in 1..Len(b) : b[j] = a[k]})

\* events are the result of the pipeline for a chart and a window
events_of_chart(events, birth, natal, start, months) ==
    LET fresh == pipeline_events(birth, natal, start, months, FALSE)
    IN  same_events(events, fresh)

EventsOfStoredChart ==
    IF start_date = None \/ birth_date = None THEN aspect_events = <<>>
    ELSE events_of_chart(aspect_events, birth_date, natal_planets, start_date,
                         months_to_display)

\* C22 as claimed: after any sequence of set_chart_data and set_view calls
\* aspect_events is the result of the pipeline for the stored birth_date,
\* natal_planets, start_date and months_to_display.
C22_EventsAlwaysOfStoredChart == EventsOfStoredChart

\* C22 as amended: a set_view call made when a chart is stored leaves in
\* aspect_events the result of the pipeline for the stored chart and window;
\* set_chart_data stores the chart only and leaves the cache and
\* aspect_events as they were, until the next set_view.
C22_EventsOfChartAtLastView ==
    [][ IF birth_date' # birth_date
        THEN /\ aspect_events' = aspect_events
             /\ timeline_aspects_cache' = timeline_aspects_cache
        ELSE IF birth_date = None THEN aspect_events' = aspect_events
        ELSE events_of_chart(aspect_events', birth_date', natal_planets', start_date',
                             months_to_display') ]_vars

\* the events of a window of a month, computed by set_view for the second
\* chart stored
C22_Witness ==
    /\ SweepRan
    /\ months_to_display = 1
    /\ birth_date = TicksPerDay + 1
    /\ aspect_events # <<>>
    /\ EventsOfStoredChart

\* C23: for every tier, every name that is in the snapshot of at least one
\* day of the window is the name of at least one event emitted for that tier,
\* also a name that is still in the snapshot of the last day.
C23_NoRunLost ==
    SweepRan =>
      \A t \in 1..Len(Tiers) : \A n \in NamesOf(Tiers[t]) :
        /\ RawOf(Tiers[t], n) # {}
        /\ \E j \in 1..Len(aspect_events) :
             aspect_events[j].tier = Tiers[t] /\ aspect_events[j].name = n

\* C24: every raw event of the sweep has start <= exact_date < end; its
\* orb_readings are one reading a day for the days from start through the day
\* before end, in ascending order, as many as there are days from start to
\* end; two raw events of one tier and one name do not overlap: the later one
\* starts after the end day of the earlier one.
C24_RawEventShape ==
    SweepRan =>
      \A j \in 1..Len(raw_events) :
        LET e == raw_events[j]
        IN  /\ e.start <= e.exact_date
            /\ e.exact_date < e.end
            /\ Len(e.orb_readings) = date_of(e.end) - date_of(e.start)
            /\ \A r \in 1..Len(e.orb_readings) :
                 e.orb_readings[r][1] = plus_days(e.start, r - 1)
            /\ \A i \in 1..Len(raw_events) :
                 (i # j /\ raw_events[i].tier = e.tier /\ raw_events[i].name = e.name)
                   => (raw_events[i].start > e.end \/ e.start > raw_events[i].end)

\* two raw events of one tier and name, one of them of three days or more
C24_Witness ==
    /\ SweepRan
    /\ \E i, j \in 1..Len(raw_events) :
         /\ i # j
         /\ raw_events[i].tier = raw_events[j].tier
         /\ raw_events[i].name = raw_events[j].name
         /\ Len(raw_events[i].orb_readings) >= 3
         /\ raw_events[i].exact_date > raw_events[i].start

MergedTransits == {j \in 1..Len(aspect_events) : aspect_events[j].tier = "transits"}

\* C25: the exact_date of a merged transit event is one of its exact_dates,
\* also when several readings have the least orb, and every date of
\* exact_dates lies in [start, end) of the merged event.
C25_ExactDateAmongExactDates ==
    SweepRan =>
      \A j \in MergedTransits :
        LET e == aspect_events[j]
        IN  /\ \E k \in 1..Len(e.exact_dates) : e.exact_dates[k] = e.exact_date
            /\ \A k \in 1..Len(e.exact_dates) :
                 e.start <= e.exact_dates[k] /\ e.exact_dates[k] < e.end

\* a merged event of two passes or more in which readings of two passes, and
\* two readings of one pass, have the least orb
C25_Witness ==
    /\ SweepRan
    /\ \E j \in MergedTransits :
         LET e == aspect_events[j]
             least_orb == min_reading(e.orb_readings)[2]
             passes == RawOf("transits", e.name)
             exact_in(p) == {r \in 1..Len(raw_events[p].orb_readings) :
                               raw_events[p].orb_readings[r][2] = least_orb}
         IN  /\ Len(e.exact_dates) >= 2
             /\ \E p, q \in passes : p # q /\ exact_in(p) # {} /\ exact_in(q) # {}
             /\ \E p \in passes : Cardinality(exact_in(p)) >= 2

MajorFive == {"Jupiter", "Saturn", "Uranus", "Neptune", "Pluto"}

TenBodies == {"Sun", "Moon", "Mercury", "Venus", "Mars",
              "Jupiter", "Saturn", "Uranus", "Neptune", "Pluto"}

NatalBodies == {natal_planets[k].name : k \in 1..Len(natal_planets)}

\* the day of the sweep that has the date d
DayIndex(d) == CHOOSE k \in 1..NumDaysVisited : days_visited[k] = d

EventShapeOfTier(e) ==
    /\ e.tier \in {Tiers[t] : t \in 1..Len(Tiers)}
    /\ IF e.tier = "transits"
       THEN /\ e.p1 \in MajorFive
            /\ e.p2 \in NatalBodies
            /\ \A r \in 1..Len(e.orb_readings) : e.orb_readings[r][2] <= 2
       ELSE /\ e.p1 \in TenBodies
            /\ e.p2 \in TenBodies
            /\ \A r \in 1..Len(e.orb_readings) : e.orb_readings[r][2] <= 1
    /\ \A r \in 1..Len(e.orb_readings) :
         /\ e.orb_readings[r][1] \in {days_visited[k] : k \in 1..NumDaysVisited}
         /\ PresentOn(e.tier, e.name, DayIndex(e.orb_readings[r][1]))
         /\ OrbOn(e.tier, e.name, DayIndex(e.orb_readings[r][1])) = e.orb_readings[r][2]

\* C26: a transit event has p1 among Jupiter, Saturn, Uranus, Neptune, Pluto,
\* p2 a natal body and no orb reading above 2; a progression event has both
\* bodies among the ten and no orb reading above 1; the tier of an event is
\* the tier of the snapshot lists its readings were taken from.
C26_EventsOfTheirTier ==
    SweepRan =>
      /\ \A j \in 1..Len(raw_events) : EventShapeOfTier(raw_events[j])
      /\ \A j \in 1..Len(aspect_events) : EventShapeOfTier(aspect_events[j])

\* a transit event with a reading at orb 2 and a progression event with a
\* reading at orb 1
C26_Witness ==
    /\ SweepRan
    /\ \E j \in 1..Len(aspect_events) :
         /\ aspect_events[j].tier = "transits"
         /\ \E r \in 1..Len(aspect_events[j].orb_readings) :
              aspect_events[j].orb_readings[r][2] = 2
    /\ \E j \in 1..Len(aspect_events) :
         /\ aspect_events[j].tier # "transits"
         /\ \E r \in 1..Len(aspect_events[j].orb_readings) :
              aspect_events[j].orb_readings[r][2] = 1

-----------------------------------------------------------------------------
(* Calls of the aspect detector with every whole orb up to MaxOrb *)

InitOrbs ==
    /\ eph = ephemeris([step |-> 0, turn |-> 0], [step |-> 0, turn |-> 0])
    /\ engine_widget_init
    /\ \/ \E planets \in SinglePlacements, orb \in 0..MaxOrb :
            call = [fn |-> "calculate_aspects", planets1 |-> planets, planets2 |-> <<>>,
                    orb |-> orb, done |-> FALSE, result |-> <<>>]
       \/ \E planets1 \in FirstPlacements, planets2 \in SecondPlacements, orb \in 0..MaxOrb :
            call = [fn |-> "find_cross_aspects", planets1 |-> planets1,
                    planets2 |-> planets2, orb |-> orb, done |-> FALSE, result |-> <<>>]

SpecOrbs == InitOrbs /\ [][NextCalls]_vars

\* the aspects emitted for one pair: the bodies named a and b of one
\* placement, or a of the first and b of the second
OfPair(a, b) ==
    {k \in 1..Len(call.result) :
        IF call.fn = "calculate_aspects"
        THEN {call.result[k].p1, call.result[k].p2} = {a, b}
        ELSE call.result[k].p1 = a /\ call.result[k].p2 = b}

KindsWithin(x, y, orb) == {kind \in FiveKinds : OrbTo(kind, x, y) <= orb}

PairsOfCall ==
    IF call.fn = "calculate_aspects"
    THEN {<<i, j>> \in (1..Len(call.planets1)) \X (1..Len(call.planets1)) : i < j}
    ELSE (1..Len(call.planets1)) \X (1..Len(call.planets2))

SecondOfCall == IF call.fn = "calculate_aspects" THEN call.planets1 ELSE call.planets2

\* C27: with an orb below 15 degrees calculate_aspects and find_cross_aspects
\* emit at most one aspect for a pair; with any orb they emit one aspect for
\* each kind the pair is within orb of, so both when two kinds match.
C27_OneKindBelowFifteen ==
    (CalcDone \/ CrossDone) =>
      \A ij \in PairsOfCall :
        LET a == call.planets1[ij[1]].name
            b == SecondOfCall[ij[2]].name
            x == Lon(call.planets1, ij[1])
            y == Lon(SecondOfCall, ij[2])
        IN  /\ call.orb < 15 => Cardinality(OfPair(a, b)) <= 1
            /\ Cardinality(OfPair(a, b)) = Cardinality(KindsWithin(x, y, call.orb))
            /\ \A kind \in KindsWithin(x, y, call.orb) :
                 \E k \in OfPair(a, b) : call.result[k].aspect = kind

\* two bodies 76 degrees apart with orb 14: a Square and no Sextile
C27_Witness ==
    /\ CalcDone
    /\ call.orb = 14
    /\ Len(call.planets1) = 2
    /\ ShorterArc(Lon(call.planets1, 1), Lon(call.planets1, 2)) = 76
    /\ Len(call.result) = 1
    /\ call.result[1].aspect = "Square"

-----------------------------------------------------------------------------
(* The house whose arc holds a longitude *)

\* position is in the half-open arc that runs from one cusp up to the next
InArc(position, from, to) ==
    ((position - from) % FullCircle) < ((to - from) % FullCircle)

HouseOfArc(cusps, position) ==
    CHOOSE i \in 1..12 : InArc(position, cusps[i], cusps[(i % 12) + 1])

\* C28: for every longitude of [0, 360) and twelve cusps that ascend round
\* the circle the lookup returns the one house i + 1 whose half-open arc from
\* cusp i to cusp (i + 1) mod 12 holds the longitude, also when 0 degrees
\* falls inside one of the houses 1..11.
C28_HouseHoldsLongitude ==
    /\ HouseForPositionDone =>
         call.result = str(HouseOfArc(natal_houses, call.position))
    /\ HouseForPlanetDone =>
         call.result = HouseOfArc(natal_houses, call.position)

-----------------------------------------------------------------------------
(* timeline_grid_widget.py: _assign_layout_lanes(events), is_grid = False,   *)
(* as _draw_progression_tier calls it.  An event is [name, start, end].      *)

MaxEvents == 4
MaxLaneDay == 3

\* sorted(events, key = lambda e: e['start']): stable, events of one start
\* keep their order
sorted_by_start(events) ==
    LET n == Len(events)
        rank(i) == 1 + Cardinality({j \in 1..n :
                         \/ events[j].start < events[i].start
                         \/ (events[j].start = events[i].start /\ j < i)})
    IN  list([k \in 1..n |-> events[CHOOSE i \in 1..n : rank(i) = k]])

\* (the last lane that is free)
last_fit(lanes, event) ==
    LET fits == {i \in 1..Len(lanes) : event.start >= lanes[i].end}
    IN  IF fits = {} THEN 0 ELSE CHOOSE i \in fits : \A j \in fits : j <= i
\* the inner loop: the first i with event['start'] >= lanes[i]['end'], from
\* 1; 0 if there is none (placed stays False)
first_fit(lanes, event) ==
    LET fits == {i \in 1..Len(lanes) : event.start >= lanes[i].end}
    IN  IF fits = {} THEN 0 ELSE least(fits)

\* the loop over sorted_events: lanes holds the last event of each lane
RECURSIVE lanes_loop(_, _, _, _)
lanes_loop(sorted_events, k, lanes, out) ==
    IF k > Len(sorted_events) THEN out
    ELSE
      LET event == sorted_events[k]
          i == first_fit(lanes, event)
      IN  IF i # 0
          THEN LET placed == event @@ [lane |-> i - 1]
               IN  lanes_loop(sorted_events, k + 1, [lanes EXCEPT ![i] = placed],
                              Append(out, placed))
          ELSE LET placed == event @@ [lane |-> Len(lanes)]
               IN  lanes_loop(sorted_events, k + 1, Append(lanes, placed),
                              Append(out, placed))

assign_layout_lanes(events) ==
    IF events = <<>> THEN <<>>
    ELSE lanes_loop(sorted_by_start(events), 1, <<>>, <<>>)

LaneSpans == {se \in (0..MaxLaneDay) \X (0..MaxLaneDay) : se[1] < se[2]}

RECURSIVE EventLists(_)
EventLists(n) ==
    IF n = 0 THEN {<<>>}
    ELSE LET shorter == EventLists(n - 1)
         IN  shorter \cup
             { Append(events, [name |-> Len(events) + 1, start |-> se[1], end |-> se[2]]) :
                 events \in {l \in shorter : Len(l) = n - 1}, se \in LaneSpans }

InitLanes ==
    /\ eph = ephemeris([step |-> 0, turn |-> 0], [step |-> 0, turn |-> 0])
    /\ engine_widget_init
    /\ \E events \in EventLists(MaxEvents) :
         call = [fn |-> "_assign_layout_lanes", events |-> events, done |-> FALSE,
                 result |-> <<>>]

CallAssignLayoutLanes ==
    /\ call.fn = "_assign_layout_lanes"
    /\ ~call.done
    /\ call' = [call EXCEPT !.done = TRUE, !.result = assign_layout_lanes(call.events)]
    /\ UNCHANGED widget_vars

NextLanes == CallAssignLayoutLanes

SpecLanes == InitLanes /\ [][NextLanes]_vars

LanesDone == call.fn = "_assign_layout_lanes" /\ call.done

\* the lanes given to the events before the k-th of the result
LanesBefore(k) == {call.result[j].lane : j \in 1..(k - 1)}

\* the event placed last in a lane before the k-th
LastIn(lane, k) ==
    LET js == {j \in 1..(k - 1) : call.result[j].lane = lane}
    IN  call.result[CHOOSE j \in js : \A m \in js : m <= j]

\* C29: the events are laid out in ascending order of start; each gets the
\* lane of the least number whose last event so far ends at or before its
\* start, or the next new lane; so every event has a lane, two events of one
\* lane do not overlap, and the lanes used are 0..k-1.
C29_LowestFreeLane ==
    LanesDone =>
      LET R == call.result
          n == Len(R)
      IN  /\ n = Len(call.events)
          /\ \A i \in 1..Len(call.events) :
               \E k \in 1..n : /\ R[k].name = call.events[i].name
                               /\ R[k].start = call.events[i].start
                               /\ R[k].end = call.events[i].end
          /\ \A k \in 1..(n - 1) : R[k].start <= R[k + 1].start
          /\ \A k \in 1..n :
               LET free == {l \in LanesBefore(k) : LastIn(l, k).end <= R[k].start}
               IN  IF free = {} THEN R[k].lane = Cardinality(LanesBefore(k))
                   ELSE /\ R[k].lane \in free
                        /\ \A l \in free : R[k].lane <= l
          /\ \A j, k \in 1..n :
               (j < k /\ R[j].lane = R[k].lane) => R[j].end <= R[k].start
          /\ {R[k].lane : k \in 1..n} = 0..(Cardinality({R[k].lane : k \in 1..n}) - 1)

\* an event that fits two lanes and takes the lower one, after an event that
\* fitted none
C29_Witness ==
    /\ LanesDone
    /\ Len(call.result) >= 3
    /\ \E k \in 1..Len(call.result) :
         /\ Cardinality({l \in LanesBefore(k) :
                            LastIn(l, k).end <= call.result[k].start}) >= 2
         /\ call.result[k].lane = 0
    /\ \E k \in 1..Len(call.result) : call.result[k].lane = 1

-----------------------------------------------------------------------------
(* set_view on an ephemeris that covers a range of dates only: swe.calc_ut  *)
(* raises swisseph.Error for an instant after the last one it covers.  No   *)
(* function of astro_engine.py or of the widget catches it.                 *)

RangeEndDays == {2, 3, 10, 400}

with_range(motions, last) == [n \in PlanetSet |-> motions[n] @@ [last |-> last]]

RangeEphSet ==
    { with_range(ephemeris([step |-> 1, turn |-> 6], mm),
                 plus_days(0, d) + TicksPerDay - 1) :
        mm \in {[step |-> 1, turn |-> 7], [step |-> 1, turn |-> 0]}, d \in RangeEndDays }

\* get_planet_position returns for every body
covered(calculation_date) == \A n \in PlanetSet : calculation_date <= eph[n].last

\* the body of the loop of _calculate_daily_aspects raises: the transiting
\* positions of the day or the progressed positions are not covered
day_raises(birth, current_date) ==
    \/ ~covered(current_date)
    \/ ~covered(plus_days(birth, date_of(current_date) - date_of(birth)))

set_view_raising(start, months, rev) ==
    /\ start_date' = start
    /\ months_to_display' = months
    /\ IF start = None \/ birth_date = None
       THEN /\ UNCHANGED <<timeline_aspects_cache, aspect_events, raw_events, days_visited>>
            /\ call' = [fn |-> "set_view", raised |-> "none"]
       ELSE
         LET dates == loop_dates(start, months * DaysPerMonth)
             raising == IF natal_planets = <<>> THEN {}
                        ELSE {k \in 1..Len(dates) : day_raises(birth_date, dates[k])}
         IN  IF raising # {}
             THEN \* the cache was emptied and holds the days before the one that raised
                  /\ timeline_aspects_cache' =
                        dict([key \in {date_of(dates[k]) : k \in 1..(least(raising) - 1)} |->
                            daily_entry(birth_date, natal_planets,
                                        dates[CHOOSE k \in 1..Len(dates) :
                                                  date_of(dates[k]) = key])])
                  /\ UNCHANGED <<aspect_events, raw_events, days_visited>>
                  /\ call' = [fn |-> "set_view", raised |-> "swisseph.Error"]
             ELSE /\ timeline_aspects_cache' =
                        IF natal_planets = <<>> THEN timeline_aspects_cache
                        ELSE calculate_daily_aspects(birth_date, natal_planets, start, months)
                  /\ IF timeline_aspects_cache' = <<>>
                     THEN /\ aspect_events' = <<>>
                          /\ raw_events' = <<>>
                          /\ days_visited' = <<>>
                     ELSE /\ raw_events' =
                                raw_events_of(timeline_aspects_cache', start, months, rev)
                          /\ aspect_events' = merge_events(raw_events')
                          /\ days_visited' = loop_dates(start, months * DaysPerMonth)
                  /\ call' = [fn |-> "set_view", raised |-> "none"]
    /\ UNCHANGED <<eph, birth_date, natal_planets, natal_houses>>

InitRange ==
    /\ eph \in RangeEphSet
    /\ engine_widget_init
    /\ call = [fn |-> "none", raised |-> "none"]

SetViewRaising ==
    \E start \in StartInstants, months \in 0..MaxMonths, rev \in BOOLEAN :
        set_view_raising(start, months, rev)

NextRange == SetChartData \/ SetViewRaising

SpecRange == InitRange /\ [][NextRange]_vars

\* C30: when the ephemeris fails for a day while set_view recomputes the
\* timeline, the failure reaches the caller and start_date,
\* months_to_display, the daily cache and aspect_events are as they were
\* before the call.
C30_FailedViewLeavesState ==
    [][ (call' # call /\ call'.raised = "swisseph.Error") =>
          /\ start_date' = start_date
          /\ months_to_display' = months_to_display
          /\ timeline_aspects_cache' = timeline_aspects_cache
          /\ aspect_events' = aspect_events ]_vars

====
